---- MODULE Spec2Model ----
(***************************************************************************)
(* rscrot: capture a screenshot with maim, ask the user what to do with it *)
(* through a zenity list dialog, and carry out the chosen action.          *)
(*                                                                         *)
(* The model follows src/main.rs.  One behaviour is one run of main().     *)
(* Every external interaction (a subprocess, a file operation, the upload  *)
(* client, the notification daemon) is one step whose outcome is chosen    *)
(* nondeterministically, and is appended to `log` with what the program    *)
(* passed to it and what came back.                                        *)
(***************************************************************************)
EXTENDS Integers, Sequences, FiniteSets, TLC

VARIABLES
    args,       \* env::args() after the program name
    pc,         \* position of main()
    matches,    \* what main() reads out of getopts' Matches
    choice,     \* the Choice returned by get_user_choice_from_menu
    info,       \* the result of upload_to_imgur
    log,        \* external interactions so far, in order
    err,        \* the message the run died with ("" if it did not)
    exit_code,  \* process exit status, meaningful when pc = "exit"
    twin        \* a second resolution of the same dialog output (SpecTwin only)

vars == <<args, pc, matches, choice, info, log, err, exit_code, twin>>

----------------------------------------------------------------------------
(* Bounds *)

\* Longest command line (in words after the program name).
MaxArgs == 4

----------------------------------------------------------------------------
(* Strings *)

RECURSIVE Contains(_, _)
\* TRUE iff sub occurs in s.
Contains(s, sub) ==
    IF Len(sub) > Len(s) THEN FALSE
    ELSE IF SubSeq(s, 1, Len(sub)) = sub THEN TRUE
    ELSE Contains(Tail(s), sub)

IsWhitespace(c) == c \in {" ", "\n", "\t", "\r", "\f"}

RECURSIVE TrimStart(_)
TrimStart(s) ==
    IF Len(s) > 0 /\ IsWhitespace(Head(s)) THEN TrimStart(Tail(s)) ELSE s

RECURSIVE TrimEnd(_)
TrimEnd(s) ==
    IF Len(s) > 0 /\ IsWhitespace(SubSeq(s, Len(s), Len(s)))
    THEN TrimEnd(SubSeq(s, 1, Len(s) - 1))
    ELSE s

\* trim removing trailing whitespace only.
Trim_EndOnly(s) == TrimEnd(s)

\* str::trim
Trim(s) == TrimEnd(TrimStart(s))

EscapeChar(c) ==
    CASE c = "\n" -> "\\n"
      [] c = "\t" -> "\\t"
      [] c = "\r" -> "\\r"
      [] c = "\"" -> "\\\""
      [] c = "\\" -> "\\\\"
      [] OTHER    -> c

RECURSIVE EscapeAll(_)
EscapeAll(s) == IF Len(s) = 0 THEN "" ELSE EscapeChar(Head(s)) \o EscapeAll(Tail(s))

\* format!("{:?}", s) of a str
DebugFmt(s) == "\"" \o EscapeAll(s) \o "\""

----------------------------------------------------------------------------
(* Results *)

Ok(v)  == [ok |-> TRUE,  val |-> v]
Err(e) == [ok |-> FALSE, val |-> e]

\* One external interaction: what it is for, the program or service, its
\* arguments, what was written to its standard input, how it ended and what it
\* gave back.
Call(kind, tool, argv, stdin, status, out) ==
    [kind |-> kind, tool |-> tool, argv |-> argv, stdin |-> stdin,
     status |-> status, out |-> out]

\* Display of a failed std::process::ExitStatus
ExitStatusText == "exit status: 1"
\* to_string() of the io::Error of a failed spawn
SpawnErrText == "No such file or directory (os error 2)"

NoChoice == [tag |-> "None", arg |-> ""]
NoInfo == [kind |-> "none", val |-> ""]
NoMatches == [help |-> FALSE, select |-> FALSE, imgur |-> <<>>, viewers |-> <<>>]
NoTwin == [set |-> FALSE, result |-> Err(""), picker |-> <<"none", "">>]

----------------------------------------------------------------------------
(* Command line *)

\* Words a command line is made of.
Words == {"-s", "-h", "--imgur", "--viewer", "-t", "feh", "5"}

RECURSIVE SeqsUpTo(_, _)
SeqsUpTo(S, n) ==
    IF n = 0 THEN {<<>>}
    ELSE LET shorter == SeqsUpTo(S, n - 1)
         IN  shorter \cup {Append(q, w) : q \in {r \in shorter : Len(r) = n - 1}, w \in S}

\* getopts: a word is an option when it starts with '-' and is longer than "-".
IsOption(w) == Len(w) > 1 /\ Head(w) = "-"

\* getopts: the name of an option word, without its leading dashes.
Undashed(w) == IF SubSeq(w, 1, 2) = "--" THEN SubSeq(w, 3, Len(w)) ELSE SubSeq(w, 2, Len(w))

\* The options main() declares: name -> [takes an argument, may repeat].
Declared ==
    [select |-> [hasarg |-> FALSE, multi |-> FALSE],
     imgur  |-> [hasarg |-> TRUE,  multi |-> FALSE],
     viewer |-> [hasarg |-> TRUE,  multi |-> TRUE],
     help   |-> [hasarg |-> FALSE, multi |-> FALSE]]

\* The declared option a word names, "" when it names none.
OptionName(w) ==
    CASE w \in {"-s", "--select"} -> "select"
      [] w = "--imgur"            -> "imgur"
      [] w = "--viewer"           -> "viewer"
      [] w \in {"-h", "--help"}   -> "help"
      [] OTHER                    -> ""

NoVals == [select |-> <<>>, imgur |-> <<>>, viewer |-> <<>>, help |-> <<>>]

RECURSIVE ParseFrom_SkipUnknown(_, _, _)
\* ParseFrom passing over options that are not declared.
ParseFrom_SkipUnknown(as, i, vals) ==
    IF i > Len(as) THEN
        IF \E n \in DOMAIN Declared : ~Declared[n].multi /\ Len(vals[n]) > 1
        THEN LET n == CHOOSE n \in DOMAIN Declared : ~Declared[n].multi /\ Len(vals[n]) > 1
             IN  Err("Option '" \o n \o "' given more than once")
        ELSE Ok(vals)
    ELSE IF ~IsOption(as[i]) \/ OptionName(as[i]) = ""
         THEN ParseFrom_SkipUnknown(as, i + 1, vals)
    ELSE LET n == OptionName(as[i]) IN
         IF ~Declared[n].hasarg
         THEN ParseFrom_SkipUnknown(as, i + 1, [vals EXCEPT ![n] = Append(@, "")])
         ELSE IF i + 1 > Len(as) THEN Err("Argument to option '" \o n \o "' missing")
         ELSE ParseFrom_SkipUnknown(as, i + 2, [vals EXCEPT ![n] = Append(@, as[i + 1])])

RECURSIVE ParseFrom(_, _, _)
\* Options::parse from word i on; vals collects each option's occurrences.
ParseFrom(as, i, vals) ==
    IF i > Len(as) THEN
        IF \E n \in DOMAIN Declared : ~Declared[n].multi /\ Len(vals[n]) > 1
        THEN LET n == CHOOSE n \in DOMAIN Declared : ~Declared[n].multi /\ Len(vals[n]) > 1
             IN  Err("Option '" \o n \o "' given more than once")
        ELSE Ok(vals)
    ELSE IF ~IsOption(as[i]) THEN ParseFrom(as, i + 1, vals)      \* a free argument
    ELSE LET n == OptionName(as[i]) IN
         IF n = "" THEN Err("Unrecognized option: '" \o Undashed(as[i]) \o "'")
         ELSE IF ~Declared[n].hasarg
              THEN ParseFrom(as, i + 1, [vals EXCEPT ![n] = Append(@, "")])
         ELSE IF i + 1 > Len(as) THEN Err("Argument to option '" \o n \o "' missing")
         ELSE ParseFrom(as, i + 2, [vals EXCEPT ![n] = Append(@, as[i + 1])])

\* opts.parse(args)
Parse(as) == ParseFrom(as, 1, NoVals)

\* ReadMatches never seeing the help flag.
ReadMatches_NoHelp(vals) ==
    [help    |-> FALSE,
     select  |-> Len(vals.select) > 0,
     imgur   |-> IF Len(vals.imgur) > 0 THEN <<vals.imgur[1]>> ELSE <<>>,
     viewers |-> vals.viewer]

\* What main() reads from the Matches.
ReadMatches(vals) ==
    [help    |-> Len(vals.help) > 0,
     select  |-> Len(vals.select) > 0,
     imgur   |-> IF Len(vals.imgur) > 0 THEN <<vals.imgur[1]>> ELSE <<>>,
     viewers |-> vals.viewer]

\* env::temp_dir().join("rscrot_screenshot.png")
FilePath == "/tmp/rscrot_screenshot.png"

----------------------------------------------------------------------------
(* The run *)

Init ==
    /\ args \in SeqsUpTo(Words, MaxArgs)
    /\ pc = "start"
    /\ matches = NoMatches
    /\ choice = NoChoice
    /\ info = NoInfo
    /\ log = <<>>
    /\ err = ""
    /\ exit_code = 0
    /\ twin = NoTwin

\* A panic: the process dies with status 101.
Panic(msg) ==
    /\ pc' = "exit"
    /\ err' = msg
    /\ exit_code' = 101

\* main() returns.
Return ==
    /\ pc' = "exit"
    /\ exit_code' = 0
    /\ UNCHANGED err

\* main(): option parsing and the help flag.
ParseArgs ==
    /\ pc = "start"
    /\ LET m == Parse(args) IN
       IF ~m.ok THEN
            /\ Panic(m.val)
            /\ UNCHANGED <<matches, log>>
       ELSE IF ReadMatches(m.val).help THEN
            /\ log' = Append(log, Call("usage", "stdout", <<>>, "", "ok", ""))
            /\ matches' = ReadMatches(m.val)
            /\ Return
       ELSE /\ matches' = ReadMatches(m.val)
            /\ pc' = "capture"
            /\ UNCHANGED <<log, err, exit_code>>
    /\ UNCHANGED <<args, choice, info>>

\* save_screenshot without the check of maim's exit status.
save_screenshot_NoStatusCheck(status) ==
    IF status = "spawn_err" THEN Err(SpawnErrText) ELSE Ok("")

\* save_screenshot's result, given how maim ended.
save_screenshot(status) ==
    CASE status = "spawn_err" -> Err(SpawnErrText)
      [] status = "nonzero"   -> Err("maim failed. Exit status: " \o ExitStatusText)
      [] OTHER                -> Ok("")

\* main(): save_screenshot(&file_path, select).unwrap()
SaveScreenshot ==
    /\ pc = "capture"
    /\ \E status \in {"spawn_err", "nonzero", "ok"} :
        LET argv == (IF matches.select THEN <<"-s">> ELSE <<>>) \o <<FilePath>>
            r    == save_screenshot(status)
        IN  /\ log' = Append(log, Call("capture", "maim", argv, "", status, ""))
            /\ IF r.ok THEN pc' = "menu" /\ UNCHANGED <<err, exit_code>>
                       ELSE Panic(r.val)
    /\ UNCHANGED <<args, matches, choice, info>>

----------------------------------------------------------------------------
(* The menu *)

\* Catalog with the upload row offered whether or not upload is enabled.
Catalog_UploadAlways(imgur, viewers) ==
    <<"Upload to imgur.com", "Copy to clipboard", "Save as...">>
    \o [i \in 1..Len(viewers) |-> "Open with " \o viewers[i]]

\* The rows get_user_choice_from_menu hands to zenity --list.
Catalog(imgur, viewers) ==
    (IF imgur THEN <<"Upload to imgur.com">> ELSE <<>>)
    \o <<"Copy to clipboard", "Save as...">>
    \o [i \in 1..Len(viewers) |-> "Open with " \o viewers[i]]

MenuArgs == <<"--list", "--title", "Choose Action", "--column", "Action">>

\* MatchOutput comparing viewer labels without the trailing newline.
MatchOutput_NoNewline(out, viewers) ==
    CASE out = "Upload to imgur.com\n" -> [kind |-> "Upload", viewer |-> ""]
      [] out = "Save as...\n"          -> [kind |-> "SaveAs", viewer |-> ""]
      [] out = "Copy to clipboard\n"   -> [kind |-> "CopyToClipboard", viewer |-> ""]
      [] OTHER ->
            LET hits == {i \in 1..Len(viewers) : out = "Open with " \o viewers[i]}
            IN  IF hits # {}
                THEN [kind |-> "OpenWith",
                      viewer |-> viewers[CHOOSE i \in hits : \A j \in hits : i <= j]]
                ELSE [kind |-> "Unknown", viewer |-> ""]

\* MatchOutput with hidden state: it matches only the first time it is asked,
\* and knows nothing once a dialog has been answered.
MatchOutput_FirstCallOnly(out, viewers) ==
    IF \E i \in DOMAIN log : log[i].kind = "menu"
    THEN [kind |-> "Unknown", viewer |-> ""]
    ELSE CASE out = "Upload to imgur.com\n" -> [kind |-> "Upload", viewer |-> ""]
           [] out = "Save as...\n"          -> [kind |-> "SaveAs", viewer |-> ""]
           [] out = "Copy to clipboard\n"   -> [kind |-> "CopyToClipboard", viewer |-> ""]
           [] OTHER ->
                LET hits == {i \in 1..Len(viewers) : out = "Open with " \o viewers[i] \o "\n"}
                IN  IF hits # {}
                    THEN [kind |-> "OpenWith",
                          viewer |-> viewers[CHOOSE i \in hits : \A j \in hits : i <= j]]
                    ELSE [kind |-> "Unknown", viewer |-> ""]

\* MatchOutput returning the first configured viewer for any viewer row.
MatchOutput_FirstViewer(out, viewers) ==
    CASE out = "Upload to imgur.com\n" -> [kind |-> "Upload", viewer |-> ""]
      [] out = "Save as...\n"          -> [kind |-> "SaveAs", viewer |-> ""]
      [] out = "Copy to clipboard\n"   -> [kind |-> "CopyToClipboard", viewer |-> ""]
      [] OTHER ->
            IF \E i \in 1..Len(viewers) : out = "Open with " \o viewers[i] \o "\n"
            THEN [kind |-> "OpenWith", viewer |-> viewers[1]]
            ELSE [kind |-> "Unknown", viewer |-> ""]

\* The match on the dialog's standard output.
MatchOutput(out, viewers) ==
    CASE out = "Upload to imgur.com\n" -> [kind |-> "Upload", viewer |-> ""]
      [] out = "Save as...\n"          -> [kind |-> "SaveAs", viewer |-> ""]
      [] out = "Copy to clipboard\n"   -> [kind |-> "CopyToClipboard", viewer |-> ""]
      [] OTHER ->
            LET hits == {i \in 1..Len(viewers) : out = "Open with " \o viewers[i] \o "\n"}
            IN  IF hits # {}
                THEN [kind |-> "OpenWith",
                      viewer |-> viewers[CHOOSE i \in hits : \A j \in hits : i <= j]]
                ELSE [kind |-> "Unknown", viewer |-> ""]

\* What the list dialog may print: every label the program can offer followed
\* by a newline, a label without its newline, and nothing.
DialogOutputs ==
    {l \o "\n" : l \in {"Upload to imgur.com", "Copy to clipboard", "Save as..."}
                       \cup {"Open with " \o w : w \in Words}}
    \cup {"Open with feh", ""}

\* What the save picker may print.
PickerOutputs == {"/tmp/out.png\n", "/tmp/out.png ", " /tmp/o ut.png\n", ""}

\* get_user_choice_from_menu up to its return, or up to its call of
\* get_save_filename_from_zenity.
GetUserChoiceFromMenu ==
    /\ pc = "menu"
    /\ \E status \in {"spawn_err", "nonzero", "ok"}, out \in DialogOutputs :
        /\ status # "ok" => out = ""
        /\ log' = Append(log, Call("menu", "zenity",
                                   MenuArgs \o Catalog(matches.imgur # <<>>, matches.viewers),
                                   "", status, out))
        /\ IF status = "spawn_err" THEN Panic(SpawnErrText) /\ UNCHANGED choice
           ELSE IF status = "nonzero"
                THEN Panic("zenity failed. Exit status: " \o ExitStatusText) /\ UNCHANGED choice
           ELSE LET m == MatchOutput(out, matches.viewers) IN
                CASE m.kind = "Upload" ->
                        /\ choice' = [tag |-> "Upload", arg |-> ""]
                        /\ pc' = "dispatch" /\ UNCHANGED <<err, exit_code>>
                  [] m.kind = "SaveAs" ->
                        /\ pc' = "picker" /\ UNCHANGED <<choice, err, exit_code>>
                  [] m.kind = "CopyToClipboard" ->
                        /\ choice' = [tag |-> "CopyToClipboard", arg |-> ""]
                        /\ pc' = "dispatch" /\ UNCHANGED <<err, exit_code>>
                  [] m.kind = "OpenWith" ->
                        /\ choice' = [tag |-> "OpenWith", arg |-> m.viewer]
                        /\ pc' = "dispatch" /\ UNCHANGED <<err, exit_code>>
                  [] OTHER ->
                        /\ Panic("Zenity returned unknown result " \o DebugFmt(out))
                        /\ UNCHANGED choice
    /\ UNCHANGED <<args, matches, info>>

\* A failed save picker is asked again instead of ending the run.
PropagatePickerError_Retry(msg) ==
    /\ pc' = "picker"
    /\ UNCHANGED <<err, exit_code>>

\* A failed save picker is passed over and the run goes on to dispatch.
PropagatePickerError_Ignore(msg) ==
    /\ pc' = "dispatch"
    /\ UNCHANGED <<err, exit_code>>

\* An Err of get_save_filename_from_zenity: `?` returns it from
\* get_user_choice_from_menu and main()'s unwrap() panics with it.
PropagatePickerError(msg) == Panic(msg)

\* get_save_filename_from_zenity, called for "Save as...", and the return of
\* get_user_choice_from_menu with its result.
GetSaveFilenameFromZenity ==
    /\ pc = "picker"
    /\ \E status \in {"spawn_err", "nonzero", "bad_utf8", "ok"}, out \in PickerOutputs :
        /\ status # "ok" => out = ""
        /\ log' = Append(log, Call("picker", "zenity", <<"--file-selection", "--save">>,
                                   "", status, out))
        /\ CASE status = "spawn_err" -> PropagatePickerError(SpawnErrText) /\ UNCHANGED choice
             [] status = "nonzero" ->
                    /\ PropagatePickerError("zenity failed. Exit status: " \o ExitStatusText)
                    /\ UNCHANGED choice
             [] status = "bad_utf8" ->
                    Panic("invalid utf-8 sequence") /\ UNCHANGED choice
             [] OTHER ->
                    /\ choice' = [tag |-> "SaveAs", arg |-> out]
                    /\ pc' = "dispatch" /\ UNCHANGED <<err, exit_code>>
    /\ UNCHANGED <<args, matches, info>>

----------------------------------------------------------------------------
(* Dispatch *)

\* Branch with the SaveAs and CopyToClipboard arms exchanged.
Branch_Swapped(c) ==
    CASE c.tag = "SaveAs"          -> "CopyToClipboard"
      [] c.tag = "CopyToClipboard" -> "SaveAs"
      [] OTHER                     -> c.tag

\* The arm of main()'s match that a Choice selects.
Branch(c) == c.tag

\* The captured image as read back from FilePath.
ImageBytes == "PNG"

\* How upload_to_imgur may end: the file cannot be read, the upload fails, or
\* it succeeds with or without a link.
UploadOutcomes ==
    {[kind |-> "io_err", val |-> "No such file or directory (os error 2)"],
     [kind |-> "upload_err", val |-> "imgur: request failed"],
     [kind |-> "link", val |-> "https://i.imgur.com/a.png"],
     [kind |-> "link", val |-> "https://i.imgur.com/b.png"],
     [kind |-> "nolink", val |-> ""]}

\* The interactions of upload_to_imgur for an outcome.
upload_to_imgur(client_id, o) ==
    IF o.kind = "io_err"
    THEN <<Call("read", "fs", <<FilePath>>, "", "err", "")>>
    ELSE <<Call("read", "fs", <<FilePath>>, "", "ok", ImageBytes),
           Call("upload", "imgur", <<client_id>>, ImageBytes,
                IF o.kind = "upload_err" THEN "err" ELSE "ok", o.val)>>

\* AfterUpload copying to the clipboard whenever the upload succeeded.
AfterUpload_CopyOnAnySuccess(i) ==
    IF i.kind \in {"link", "nolink"} THEN "copy_link" ELSE "notify"

\* Where the Upload arm goes with the result of upload_to_imgur.
AfterUpload(i) == IF i.kind = "link" THEN "copy_link" ELSE "notify"

\* Choice::Upload with client_id.unwrap_or_default(): a missing client id is
\* replaced by the empty string and the upload goes ahead.
DispatchUpload_DefaultId ==
    /\ pc = "dispatch"
    /\ Branch(choice) = "Upload"
    /\ \E o \in UploadOutcomes :
            /\ log' = log \o upload_to_imgur(IF matches.imgur = <<>> THEN "" ELSE matches.imgur[1], o)
            /\ info' = o
            /\ pc' = AfterUpload(o)
            /\ UNCHANGED <<err, exit_code>>
    /\ UNCHANGED <<args, matches, choice>>

\* Choice::Upload: client_id.unwrap() and upload_to_imgur.
DispatchUpload ==
    /\ pc = "dispatch"
    /\ Branch(choice) = "Upload"
    /\ IF matches.imgur = <<>> THEN
            /\ Panic("called Option::unwrap() on a None value")
            /\ UNCHANGED <<log, info>>
       ELSE \E o \in UploadOutcomes :
            /\ log' = log \o upload_to_imgur(matches.imgur[1], o)
            /\ info' = o
            /\ pc' = AfterUpload(o)
            /\ UNCHANGED <<err, exit_code>>
    /\ UNCHANGED <<args, matches, choice>>

\* How a run of xclip may end.
ClipStatuses == {"spawn_err", "write_err", "wait_err", "nonzero", "ok"}

\* copy_to_clipboard: the xclip interaction and the function's result.
copy_to_clipboard(data, target, status) ==
    [call |-> Call("clipboard", "xclip", <<"-selection", "clipboard", "-target", target>>,
                   IF status = "spawn_err" THEN "" ELSE data, status, ""),
     res  |-> CASE status = "ok"        -> Ok("")
                [] status = "nonzero"   -> Err("xclip failed. Exit status: " \o ExitStatusText)
                [] status = "spawn_err" -> Err(SpawnErrText)
                [] OTHER                -> Err("Broken pipe (os error 32)")]

\* LinkClip putting the notification text on the clipboard.
LinkClip_Body(url) == [data |-> "Uploaded to " \o url, target |-> "text/plain"]

\* What the Upload arm puts on the clipboard for a link.
LinkClip(url) == [data |-> url, target |-> "text/plain"]

\* Some(url): copy_to_clipboard(url.as_bytes(), "text/plain").unwrap()
UploadCopyLink ==
    /\ pc = "copy_link"
    /\ \E status \in ClipStatuses :
        LET c == copy_to_clipboard(LinkClip(info.val).data, LinkClip(info.val).target, status)
        IN  /\ log' = Append(log, c.call)
            /\ IF c.res.ok THEN pc' = "notify" /\ UNCHANGED <<err, exit_code>>
                           ELSE Panic(c.res.val)
    /\ UNCHANGED <<args, matches, choice, info>>

\* Notification dropping the failure message from the error summary.
Notification_NoMessage(i) ==
    CASE i.kind = "link"   -> [summary |-> "Success:", body |-> "Uploaded to " \o i.val]
      [] i.kind = "nolink" -> [summary |-> "Wtf, no link?", body |-> ""]
      [] OTHER             -> [summary |-> "Error", body |-> ""]

\* The notification the Upload arm builds for a result of upload_to_imgur.
Notification(i) ==
    CASE i.kind = "link"   -> [summary |-> "Success:", body |-> "Uploaded to " \o i.val]
      [] i.kind = "nolink" -> [summary |-> "Wtf, no link?", body |-> ""]
      [] OTHER             -> [summary |-> "Error: " \o i.val, body |-> ""]

\* Notification::new()...show().unwrap(), then main() returns.
UploadNotify ==
    /\ pc = "notify"
    /\ \E status \in {"ok", "err"} :
        /\ log' = Append(log, Call("notify", "notify_rust",
                                   <<Notification(info).summary, Notification(info).body>>,
                                   "", status, ""))
        /\ IF status = "ok" THEN Return ELSE Panic("notification failed")
    /\ UNCHANGED <<args, matches, choice, info>>

\* Choice::SaveAs: std::fs::copy to the trimmed path, panicking on failure.
DispatchSaveAs ==
    /\ pc = "dispatch"
    /\ Branch(choice) = "SaveAs"
    /\ \E status \in {"ok", "err"} :
        /\ log' = Append(log, Call("copy", "fs", <<FilePath, Trim(choice.arg)>>, "", status, ""))
        /\ IF status = "ok" THEN Return ELSE Panic("Permission denied (os error 13)")
    /\ UNCHANGED <<args, matches, choice, info>>

\* open_with swallowing a failed spawn.
open_with_IgnoreSpawnError(status) == Ok("")

\* open_with's result, given how the spawn ended.
open_with(status) == IF status = "ok" THEN Ok("") ELSE Err(SpawnErrText)

\* What a spawned viewer is doing when main returns: the Child is dropped
\* without wait(), so the viewer may have exited or may still be running.
ViewerLife(status) == IF status = "ok" THEN {"running", "exited"} ELSE {""}

\* open_with followed by a wait for the viewer: a viewer that keeps running
\* keeps the run from returning.
DispatchOpenWith_Wait ==
    /\ pc = "dispatch"
    /\ Branch(choice) = "OpenWith"
    /\ \E status \in {"spawn_err", "ok"} : \E life \in ViewerLife(status) :
        /\ log' = Append(log, Call("viewer", choice.arg, <<FilePath>>, "", status, life))
        /\ IF ~open_with(status).ok THEN Panic(open_with(status).val)
           ELSE IF life = "exited" THEN Return
           ELSE pc' = "wait" /\ UNCHANGED <<err, exit_code>>
    /\ UNCHANGED <<args, matches, choice, info>>

\* Choice::OpenWith: open_with(viewer, &file_path).unwrap()
DispatchOpenWith ==
    /\ pc = "dispatch"
    /\ Branch(choice) = "OpenWith"
    /\ \E status \in {"spawn_err", "ok"} : \E life \in ViewerLife(status) :
        /\ log' = Append(log, Call("viewer", choice.arg, <<FilePath>>, "", status, life))
        /\ IF open_with(status).ok THEN Return ELSE Panic(open_with(status).val)
    /\ UNCHANGED <<args, matches, choice, info>>

\* Choice::CopyToClipboard: read the image, then copy_to_clipboard(.., "image/png").
DispatchCopyToClipboard ==
    /\ pc = "dispatch"
    /\ Branch(choice) = "CopyToClipboard"
    /\ \/ /\ log' = Append(log, Call("read", "fs", <<FilePath>>, "", "err", ""))
          /\ Panic("No such file or directory (os error 2)")
       \/ \E status \in ClipStatuses :
            LET c == copy_to_clipboard(ImageBytes, "image/png", status)
            IN  /\ log' = log \o <<Call("read", "fs", <<FilePath>>, "", "ok", ImageBytes), c.call>>
                /\ IF c.res.ok THEN Return ELSE Panic(c.res.val)
    /\ UNCHANGED <<args, matches, choice, info>>

----------------------------------------------------------------------------

\* The result of get_user_choice_from_menu once the list dialog has printed
\* `out`, given how the save picker ends if it is called.
Resolve(out, viewers, pstatus, pout) ==
    LET m == MatchOutput(out, viewers) IN
    CASE m.kind = "Upload"          -> Ok([tag |-> "Upload", arg |-> ""])
      [] m.kind = "CopyToClipboard" -> Ok([tag |-> "CopyToClipboard", arg |-> ""])
      [] m.kind = "OpenWith"        -> Ok([tag |-> "OpenWith", arg |-> m.viewer])
      [] m.kind = "SaveAs" ->
            CASE pstatus = "ok"        -> Ok([tag |-> "SaveAs", arg |-> pout])
              [] pstatus = "spawn_err" -> Err(SpawnErrText)
              [] pstatus = "nonzero"   -> Err("zenity failed. Exit status: " \o ExitStatusText)
              [] OTHER                 -> Err("invalid utf-8 sequence")
      [] OTHER -> Err("Zenity returned unknown result " \o DebugFmt(out))

\* The same dialog output is resolved a second time with the same viewer list,
\* right after get_user_choice_from_menu has returned or failed; the save
\* picker, if called again, ends in any way it can.
ResolveAgain ==
    /\ ~twin.set
    /\ pc = "dispatch" \/ (pc = "exit" /\ choice = NoChoice)
    /\ \E i \in DOMAIN log :
        /\ log[i].kind = "menu" /\ log[i].status = "ok"
        /\ \E pstatus \in {"none", "spawn_err", "nonzero", "bad_utf8", "ok"},
              pout \in PickerOutputs :
            /\ pstatus # "ok" => pout = ""
            /\ pstatus = "none" <=> MatchOutput(log[i].out, matches.viewers).kind # "SaveAs"
            /\ twin' = [set |-> TRUE,
                        result |-> Resolve(log[i].out, matches.viewers, pstatus, pout),
                        picker |-> <<pstatus, pout>>]
    /\ UNCHANGED <<args, pc, matches, choice, info, log, err, exit_code>>

Next ==
    \/ ParseArgs /\ UNCHANGED twin
    \/ SaveScreenshot /\ UNCHANGED twin
    \/ GetUserChoiceFromMenu /\ UNCHANGED twin
    \/ GetSaveFilenameFromZenity /\ UNCHANGED twin
    \/ DispatchUpload /\ UNCHANGED twin
    \/ UploadCopyLink /\ UNCHANGED twin
    \/ UploadNotify /\ UNCHANGED twin
    \/ DispatchSaveAs /\ UNCHANGED twin
    \/ DispatchOpenWith /\ UNCHANGED twin
    \/ DispatchCopyToClipboard /\ UNCHANGED twin

Spec == Init /\ [][Next]_vars

\* The run, with one more resolution of the same dialog output beside it.
NextTwin == Next \/ ResolveAgain

SpecTwin == Init /\ [][NextTwin]_vars

----------------------------------------------------------------------------
(* Reading the log *)

\* Positions of the interactions of a kind.
At(kind) == {i \in DOMAIN log : log[i].kind = kind}

\* The interactions that carry out a dispatch action.
DispatchKinds == {"read", "upload", "clipboard", "notify", "copy", "viewer"}

Failed(i) == log[i].status # "ok"

\* The rows of a list-dialog invocation: what follows the five fixed arguments.
Rows(i) == SubSeq(log[i].argv, Len(MenuArgs) + 1, Len(log[i].argv))

\* The list dialog succeeded and printed `out`.
MenuPrinted(out) == \E i \in At("menu") : log[i].status = "ok" /\ log[i].out = out

\* `out` is one of the offered rows followed by a newline.
Offered(out) == \E i \in At("menu") : \E k \in DOMAIN Rows(i) : out = Rows(i)[k] \o "\n"

\* get_user_choice_from_menu has returned (or the run died in it).
Resolved == pc \notin {"start", "capture", "menu", "picker"}

\* The run died with the resolver's unknown-selection error.
UnknownSelection == pc = "exit" /\ Contains(err, "Zenity returned unknown result")

UploadEnabled == matches.imgur # <<>>

----------------------------------------------------------------------------
(* C1 *)

\* C1: the rows handed to the list dialog are "Upload to imgur.com" exactly when
\* upload is enabled, then "Copy to clipboard", then "Save as...", then
\* "Open with X" for each configured viewer X in order, and nothing else.
C1_CatalogRows ==
    \A i \in At("menu") :
        LET r == Rows(i)
            u == IF UploadEnabled THEN 1 ELSE 0
            n == Len(matches.viewers)
        IN  /\ SubSeq(log[i].argv, 1, 5) = <<"--list", "--title", "Choose Action", "--column", "Action">>
            /\ Len(r) = u + 2 + n
            /\ UploadEnabled => r[1] = "Upload to imgur.com"
            /\ (\E k \in DOMAIN r : r[k] = "Upload to imgur.com") <=> UploadEnabled
            /\ r[u + 1] = "Copy to clipboard"
            /\ r[u + 2] = "Save as..."
            /\ \A k \in 1..n : r[u + 2 + k] = "Open with " \o matches.viewers[k]

\* A dialog was shown with upload enabled and a viewer configured.
C1_Witness ==
    /\ At("menu") # {}
    /\ UploadEnabled
    /\ Len(matches.viewers) >= 1

\* A dialog was shown with two viewers and upload disabled.
C1_WitnessTwoViewers ==
    /\ At("menu") # {}
    /\ ~UploadEnabled
    /\ Len(matches.viewers) = 2
    /\ matches.viewers[1] # matches.viewers[2]

----------------------------------------------------------------------------
(* C2 *)

\* C2 as stated: an offered label, printed by the dialog with a newline,
\* resolves to a Choice and never to the unknown-selection error.
C2_OfferedYieldsChoice ==
    \A out \in DialogOutputs :
        (MenuPrinted(out) /\ Offered(out) /\ Resolved)
            => (choice # NoChoice /\ ~UnknownSelection)

\* C2 amended: an offered label never ends in the unknown-selection error, and
\* it yields a Choice unless it is "Save as..." and the save picker failed.
C2_OfferedResolves ==
    \A out \in DialogOutputs :
        (MenuPrinted(out) /\ Offered(out) /\ Resolved)
            => /\ ~UnknownSelection
               /\ \/ choice # NoChoice
                  \/ /\ out = "Save as...\n"
                     /\ \E i \in At("picker") : Failed(i)

\* An offered viewer row was selected and resolved.
C2_Witness ==
    /\ \E out \in DialogOutputs : MenuPrinted(out) /\ Offered(out)
    /\ choice.tag = "OpenWith"

----------------------------------------------------------------------------
(* C3 *)

\* C3 as stated: a dialog output that is not an offered row plus newline always
\* ends in the unknown-selection error and never in a Choice.
C3_UnofferedIsUnknown ==
    \A out \in DialogOutputs :
        (MenuPrinted(out) /\ ~Offered(out) /\ Resolved)
            => (choice = NoChoice /\ UnknownSelection)

----------------------------------------------------------------------------
(* C4 *)

CaptureOk == \E i \in At("capture") : ~Failed(i)
MenuOk == \E i \in At("menu") : ~Failed(i)

\* The last interaction was a dispatch action that succeeded.
DispatchDone ==
    /\ log # <<>>
    /\ log[Len(log)].kind \in {"notify", "copy", "viewer", "clipboard"}
    /\ ~Failed(Len(log))

\* Reading the captured file or the upload itself failed in the Upload arm.
UploadFailure(i) ==
    /\ choice.tag = "Upload"
    /\ log[i].kind \in {"read", "upload"}
    /\ Failed(i)

\* C4 as stated: the exit status is zero only on help or when every stage
\* succeeded, and any stage error (a failed upload included) makes it non-zero.
C4_ZeroOnlyOnFullSuccess ==
    pc = "exit" =>
        /\ exit_code = 0 =>
              \/ matches.help
              \/ (CaptureOk /\ MenuOk /\ choice # NoChoice /\ DispatchDone
                  /\ \A i \in DOMAIN log : ~Failed(i))
        /\ ((\E i \in DOMAIN log : Failed(i)) \/ UnknownSelection) => exit_code # 0

\* C4 amended: as stated, except that a failed upload (file read or upload
\* client) is reported by an error notification and the run then exits zero
\* exactly when that notification was sent.
C4_ExitStatus ==
    pc = "exit" =>
        /\ exit_code = 0 =>
              \/ matches.help
              \/ (CaptureOk /\ MenuOk /\ choice # NoChoice /\ DispatchDone
                  /\ \A i \in DOMAIN log : Failed(i) => UploadFailure(i))
        /\ ((\E i \in DOMAIN log : Failed(i) /\ ~UploadFailure(i)) \/ UnknownSelection)
              => exit_code # 0
        /\ (\E i \in DOMAIN log : UploadFailure(i)) =>
              (exit_code = 0 <=>
                  \E j \in At("notify") :
                      ~Failed(j) /\ SubSeq(log[j].argv[1], 1, 7) = "Error: ")

\* A run whose upload failed ended with status zero.
C4_Witness ==
    /\ pc = "exit"
    /\ exit_code = 0
    /\ \E i \in DOMAIN log : UploadFailure(i)

\* A run whose viewer could not be spawned ended with a non-zero status.
C4_WitnessDispatchFailure ==
    /\ pc = "exit"
    /\ exit_code # 0
    /\ \E i \in At("viewer") : Failed(i)

----------------------------------------------------------------------------
(* C5 *)

\* C5: after a failed capture the list dialog is never invoked; after a failed
\* list dialog, an unknown selection or a failed save picker no dispatch action
\* is performed; in each case the run has ended.
C5_FailureAborts ==
    /\ (\E i \in At("capture") : Failed(i)) => (At("menu") = {} /\ pc = "exit")
    /\ (\/ \E i \in At("menu") : Failed(i)
        \/ \E i \in At("picker") : Failed(i)
        \/ UnknownSelection)
          => /\ \A i \in DOMAIN log : log[i].kind \notin DispatchKinds
             /\ choice = NoChoice
             /\ pc = "exit"

\* The list dialog was cancelled (non-zero exit) after a successful capture.
C5_Witness ==
    /\ pc = "exit"
    /\ CaptureOk
    /\ \E i \in At("menu") : log[i].status = "nonzero"

\* The capture tool exited non-zero.
C5_WitnessCapture ==
    /\ pc = "exit"
    /\ \E i \in At("capture") : log[i].status = "nonzero"

----------------------------------------------------------------------------
(* C6 *)

\* The stage an interaction belongs to.
Stage(kind) ==
    CASE kind = "usage"   -> 0
      [] kind = "capture" -> 1
      [] kind = "menu"    -> 2
      [] kind = "picker"  -> 3
      [] OTHER            -> 4

\* C6: the capture tool, the list dialog and the save picker are each invoked at
\* most once, in that order, each only after the previous stage succeeded, and
\* all of them before any dispatch action.
C6_StageOrder ==
    /\ \A k \in {"capture", "menu", "picker"} : Cardinality(At(k)) <= 1
    /\ \A i, j \in DOMAIN log : i < j => Stage(log[i].kind) <= Stage(log[j].kind)
    /\ At("menu") # {} => CaptureOk
    /\ At("picker") # {} => MenuPrinted("Save as...\n")
    /\ (\E i \in DOMAIN log : log[i].kind \in DispatchKinds) => (CaptureOk /\ MenuOk)
    /\ (\E i \in At("copy") : TRUE) => (\E i \in At("picker") : ~Failed(i))

\* A complete Save-as run: capture, list dialog, save picker, file copy.
C6_Witness ==
    /\ pc = "exit"
    /\ exit_code = 0
    /\ [i \in DOMAIN log |-> log[i].kind] = <<"capture", "menu", "picker", "copy">>

----------------------------------------------------------------------------
(* C7 *)

\* The interactions an arm of main()'s match may perform.
ArmKinds(tag) ==
    CASE tag = "Upload"          -> {"read", "upload", "clipboard", "notify"}
      [] tag = "SaveAs"          -> {"copy"}
      [] tag = "OpenWith"        -> {"viewer"}
      [] tag = "CopyToClipboard" -> {"read", "clipboard"}
      [] OTHER                   -> {}

\* Every dispatch action performed belongs to the arm of the resolved Choice,
\* upload, file copy, viewer spawn and clipboard write happen at most once, and
\* a successful run performed its arm's action.
C7_ArmOfChoice ==
    /\ \A i \in DOMAIN log :
          log[i].kind \in DispatchKinds => log[i].kind \in ArmKinds(choice.tag)
    /\ \A i \in At("clipboard") :
          log[i].argv[4] = (IF choice.tag = "Upload" THEN "text/plain" ELSE "image/png")
    /\ \A i \in At("viewer") : log[i].tool = choice.arg
    /\ \A k \in {"upload", "copy", "viewer", "clipboard"} : Cardinality(At(k)) <= 1
    /\ (pc = "exit" /\ exit_code = 0 /\ ~matches.help) =>
          CASE choice.tag = "Upload"          -> At("read") # {} /\ At("notify") # {}
            [] choice.tag = "SaveAs"          -> At("copy") # {}
            [] choice.tag = "OpenWith"        -> At("viewer") # {}
            [] choice.tag = "CopyToClipboard" -> At("clipboard") # {}
            [] OTHER                          -> FALSE

\* C7: in every run at most one Choice is produced (once set it never changes)
\* and only the arm of that Choice is executed.
C7_OneChoiceOneArm ==
    /\ []C7_ArmOfChoice
    /\ [][choice # NoChoice => choice' = choice]_vars

\* A run that resolved CopyToClipboard put the image on the clipboard.
C7_Witness ==
    /\ pc = "exit"
    /\ exit_code = 0
    /\ choice.tag = "CopyToClipboard"
    /\ \E i \in At("clipboard") : log[i].stdin = ImageBytes

----------------------------------------------------------------------------
(* C8 *)

\* The upload client returned this link.
UploadedLink(url) == \E i \in At("upload") : ~Failed(i) /\ info.kind = "link" /\ log[i].out = url

\* The clipboard tool was run for plain text and received exactly `data`.
TextClipboardWrite(data, status) ==
    \E i \in At("clipboard") :
        /\ log[i].argv = <<"-selection", "clipboard", "-target", "text/plain">>
        /\ log[i].stdin = data
        /\ log[i].status = status

\* A success notification whose text contains `url` was sent.
SuccessNotification(url) ==
    \E i \in At("notify") :
        /\ log[i].argv[1] = "Success:"
        /\ Contains(log[i].argv[2], url)

\* C8 as stated: once the upload returned a link, the run writes that link to
\* the clipboard as plain text and emits a success notification containing it.
C8_LinkCopiedAndNotified ==
    \A o \in UploadOutcomes :
        (pc = "exit" /\ UploadedLink(o.val))
            => (\E st \in ClipStatuses : TextClipboardWrite(o.val, st))
               /\ SuccessNotification(o.val)

\* C8 amended: once the upload returned a link, the clipboard tool is run once,
\* for plain text; unless it could not be spawned it is given exactly that
\* link; when it succeeds a success notification containing the link follows,
\* and when it fails the run ends non-zero without any notification.
C8_LinkCopiedThenNotified ==
    \A o \in UploadOutcomes :
        (pc = "exit" /\ UploadedLink(o.val))
            => /\ Cardinality(At("clipboard")) = 1
               /\ \A i \in At("clipboard") :
                    /\ log[i].argv = <<"-selection", "clipboard", "-target", "text/plain">>
                    /\ log[i].status # "spawn_err" => log[i].stdin = o.val
                    /\ log[i].status = "ok" =>
                          /\ SuccessNotification(o.val)
                          /\ \A j \in At("notify") : i < j
                    /\ log[i].status # "ok" => (At("notify") = {} /\ exit_code # 0)

\* The link was copied and the success notification shown.
C8_Witness ==
    /\ pc = "exit"
    /\ exit_code = 0
    /\ UploadedLink("https://i.imgur.com/b.png")
    /\ TextClipboardWrite("https://i.imgur.com/b.png", "ok")
    /\ SuccessNotification("https://i.imgur.com/b.png")

----------------------------------------------------------------------------
(* C9 *)

\* C9: when the upload succeeded without a link, no clipboard write is ever
\* performed, and the run ends having emitted exactly the "no link"
\* notification.
C9_NoLinkNotified ==
    info.kind = "nolink" =>
        /\ At("clipboard") = {}
        /\ pc = "exit" =>
              /\ Cardinality(At("notify")) = 1
              /\ \A i \in At("notify") : log[i].argv = <<"Wtf, no link?", "">>
        /\ "Wtf, no link?" \notin {Notification(o).summary :
                                      o \in {u \in UploadOutcomes : u.kind # "nolink"}}

\* A run whose upload succeeded without a link has ended.
C9_Witness ==
    /\ pc = "exit"
    /\ info.kind = "nolink"
    /\ \E i \in At("upload") : ~Failed(i)
    /\ \E i \in At("notify") : ~Failed(i)

----------------------------------------------------------------------------
(* C10 *)

\* C10: when reading the captured file or the upload fails, no clipboard write
\* and no success notification ever happen, and the run ends having emitted an
\* error notification whose summary is "Error: " followed by the failure message.
C10_UploadErrorNotified ==
    info.kind \in {"io_err", "upload_err"} =>
        /\ \E i \in DOMAIN log : UploadFailure(i)
        /\ At("clipboard") = {}
        /\ \A i \in At("notify") : log[i].argv[1] # "Success:"
        /\ pc = "exit" =>
              /\ Cardinality(At("notify")) = 1
              /\ \A i \in At("notify") :
                    /\ log[i].argv[1] = "Error: " \o info.val
                    /\ Contains(log[i].argv[1], info.val)

\* A run whose upload request failed has ended after its error notification.
C10_Witness ==
    /\ pc = "exit"
    /\ info.kind = "upload_err"
    /\ \E i \in At("upload") : Failed(i)
    /\ \E i \in At("notify") : ~Failed(i)

\* A run that could not read the captured file has ended after its error
\* notification.
C10_WitnessRead ==
    /\ pc = "exit"
    /\ info.kind = "io_err"
    /\ \E i \in At("read") : Failed(i)
    /\ At("notify") # {}

----------------------------------------------------------------------------
(* C11 *)

\* Every character of s is whitespace.
AllWhitespace(s) == \A k \in 1..Len(s) : SubSeq(s, k, k) \in {" ", "\n", "\t", "\r", "\f"}

\* d is p without its surrounding whitespace: p is whitespace, d, whitespace,
\* and d neither starts nor ends with whitespace.
IsTrimOf(d, p) ==
    /\ Len(d) > 0 => (~AllWhitespace(SubSeq(d, 1, 1)) /\ ~AllWhitespace(SubSeq(d, Len(d), Len(d))))
    /\ \E a \in 0..Len(p) :
          /\ a + Len(d) <= Len(p)
          /\ AllWhitespace(SubSeq(p, 1, a))
          /\ SubSeq(p, a + 1, a + Len(d)) = d
          /\ AllWhitespace(SubSeq(p, a + Len(d) + 1, Len(p)))

\* C11: the file copy of "Save as..." goes from the captured file to the save
\* picker's output without its surrounding whitespace, and a failing copy ends
\* the run with a non-zero status.
C11_CopyToTrimmedPath ==
    \A i \in At("copy") :
        /\ MenuPrinted("Save as...\n")
        /\ \E j \in At("picker") :
              /\ j < i
              /\ ~Failed(j)
              /\ log[i].argv[1] = FilePath
              /\ Len(log[i].argv) = 2
              /\ IsTrimOf(log[i].argv[2], log[j].out)
        /\ pc = "exit"
        /\ Failed(i) <=> exit_code # 0

\* The picker printed a path with a leading space and a trailing newline, and
\* the file was copied to the path between them.
C11_Witness ==
    /\ \E j \in At("picker") : log[j].out = " /tmp/o ut.png\n"
    /\ \E i \in At("copy") : log[i].argv = <<FilePath, "/tmp/o ut.png">> /\ ~Failed(i)
    /\ exit_code = 0

\* The picker printed "/tmp/out.png " and the file was copied to "/tmp/out.png".
C11_WitnessTrailingSpace ==
    /\ \E j \in At("picker") : log[j].out = "/tmp/out.png "
    /\ \E i \in At("copy") : log[i].argv = <<FilePath, "/tmp/out.png">>

----------------------------------------------------------------------------
(* C12 *)

RECURSIVE OptionWordsFrom(_, _)
\* The positions from i on whose word is read as an option: it starts with a
\* dash and is not the argument of --imgur or --viewer.
OptionWordsFrom(as, i) ==
    IF i > Len(as) THEN {}
    ELSE IF as[i] \in {"--imgur", "--viewer"} THEN {i} \cup OptionWordsFrom(as, i + 2)
    ELSE IF Len(as[i]) > 1 /\ SubSeq(as[i], 1, 1) = "-" THEN {i} \cup OptionWordsFrom(as, i + 1)
    ELSE OptionWordsFrom(as, i + 1)

OptionWords == OptionWordsFrom(args, 1)

\* The help flag is among the options.
HelpGiven == \E i \in OptionWords : args[i] \in {"-h", "--help"}

\* Every option is one main() declares, the flags and --imgur are given at
\* most once, and --imgur and --viewer have their argument.
ValidOptions ==
    /\ \A i \in OptionWords :
          args[i] \in {"-s", "--select", "-h", "--help", "--imgur", "--viewer"}
    /\ \A i, j \in OptionWords :
          (i # j /\ args[i] \in {"-s", "--select"}) => args[j] \notin {"-s", "--select"}
    /\ \A i, j \in OptionWords :
          (i # j /\ args[i] \in {"-h", "--help"}) => args[j] \notin {"-h", "--help"}
    /\ \A i, j \in OptionWords : (i # j /\ args[i] = "--imgur") => args[j] # "--imgur"
    /\ \A i \in OptionWords : args[i] \in {"--imgur", "--viewer"} => i < Len(args)

\* C12: with the help flag among valid options the run does nothing but print
\* the usage and end with status 0: no capture, no dialog, no dispatch action.
C12_HelpOnly ==
    (HelpGiven /\ ValidOptions) =>
        /\ pc \in {"start", "exit"}
        /\ choice = NoChoice /\ info = NoInfo
        /\ pc = "start" => log = <<>>
        /\ pc = "exit" =>
              /\ exit_code = 0
              /\ Len(log) = 1
              /\ log[1].kind = "usage"

\* Help was asked for together with upload and region selection, and the run
\* has ended.
C12_Witness ==
    /\ pc = "exit"
    /\ HelpGiven /\ ValidOptions
    /\ \E i \in OptionWords : args[i] = "--imgur"
    /\ \E i \in OptionWords : args[i] = "-s"

----------------------------------------------------------------------------
(* C13 *)

\* w is a non-negative integer in decimal.
IsNat(w) ==
    /\ Len(w) > 0
    /\ \A k \in 1..Len(w) :
          SubSeq(w, k, k) \in {"0", "1", "2", "3", "4", "5", "6", "7", "8", "9"}

\* The positions of the timer option.
TimerWords == {i \in OptionWords : args[i] \in {"-t", "--timer"}}

\* A timer option is followed by no value or by one that is no non-negative
\* integer.
TimerMalformed == \E i \in TimerWords : i = Len(args) \/ ~IsNat(args[i + 1])

\* C13: with a malformed timer value the run ends in option parsing with a
\* non-zero status, and nothing was invoked before.
C13_MalformedTimerFailsFast ==
    TimerMalformed =>
        /\ pc \in {"start", "exit"}
        /\ log = <<>>
        /\ pc = "exit" => (exit_code # 0 /\ err # "")

\* "-t feh" among otherwise valid options, and the run has ended.
C13_Witness ==
    /\ pc = "exit"
    /\ \E i \in TimerWords : i < Len(args) /\ args[i + 1] = "feh"
    /\ \A i \in OptionWords \ TimerWords :
          args[i] \in {"-s", "--select", "--imgur", "--viewer"}

----------------------------------------------------------------------------
(* C14 *)

\* A timer option is given, each with a non-negative integer, and the other
\* options are valid and do not ask for help.
TimerWellFormed ==
    /\ TimerWords # {}
    /\ \A i \in TimerWords : i < Len(args) /\ IsNat(args[i + 1])
    /\ \A i \in OptionWords \ TimerWords :
          /\ args[i] \in {"-s", "--select", "--imgur", "--viewer"}
          /\ args[i] \in {"--imgur", "--viewer"} => i < Len(args)
          /\ \A j \in OptionWords \ {i} :
                args[i] \in {"-s", "--select", "--imgur"} => args[j] # args[i]

\* C14 as stated: with a well-formed timer option, option parsing succeeds and
\* the run goes on to invoke the capture tool.
C14_TimerAccepted ==
    (TimerWellFormed /\ pc = "exit") => At("capture") # {}

----------------------------------------------------------------------------
(* C15 *)

\* What the run's own resolution returned: the Choice, or the error it died with.
FirstResult == IF choice # NoChoice THEN Ok(choice) ELSE Err(err)

\* How the run's own save picker ended, <<"none", "">> if it was not called.
FirstPicker ==
    IF At("picker") = {} THEN <<"none", "">>
    ELSE LET i == CHOOSE i \in At("picker") : TRUE IN <<log[i].status, log[i].out>>

C15_WitnessSaveAs ==
    /\ twin.set
    /\ MenuPrinted("Save as...\n")
    /\ twin.picker = FirstPicker /\ twin.picker[1] = "ok"
    /\ twin.result = FirstResult

----------------------------------------------------------------------------
(* C16 *)

\* C16 as stated: the rows of every list dialog shown are pairwise distinct (a
\* viewer named twice never gives two identical rows).
C16_DistinctRows ==
    \A i \in At("menu") :
        \A k, l \in DOMAIN Rows(i) : k # l => Rows(i)[k] # Rows(i)[l]

----------------------------------------------------------------------------
(* C17 *)

\* C17: the three fixed labels resolve to their variants whatever the viewers
\* are, and "Open with V" plus newline resolves to OpenWith(V) for the
\* configured viewer V of exactly that name, wherever it stands in the list.
C17_ExactLabel ==
    \A out \in DialogOutputs :
        (MenuPrinted(out) /\ Resolved) =>
            /\ out = "Upload to imgur.com\n" => choice = [tag |-> "Upload", arg |-> ""]
            /\ out = "Copy to clipboard\n" => choice = [tag |-> "CopyToClipboard", arg |-> ""]
            /\ out = "Save as...\n" => choice.tag \in {"SaveAs", "None"}
            /\ \A k \in DOMAIN matches.viewers :
                  out = "Open with " \o matches.viewers[k] \o "\n"
                      => choice = [tag |-> "OpenWith", arg |-> matches.viewers[k]]
            /\ choice.tag = "OpenWith" =>
                  /\ out = "Open with " \o choice.arg \o "\n"
                  /\ \E k \in DOMAIN matches.viewers : matches.viewers[k] = choice.arg

\* With two different viewers configured, the row of the second was selected
\* and resolved to the second.
C17_Witness ==
    /\ Len(matches.viewers) = 2
    /\ matches.viewers[1] # matches.viewers[2]
    /\ MenuPrinted("Open with " \o matches.viewers[2] \o "\n")
    /\ choice = [tag |-> "OpenWith", arg |-> matches.viewers[2]]

----------------------------------------------------------------------------
(* C18 *)

\* C18: the save picker is invoked exactly when the list dialog succeeded with
\* "Save as..."; when it cannot be spawned or exits non-zero the run ends with
\* the picker's error, without a Choice and without a file copy.
C18_PickerForSaveAs ==
    /\ At("picker") # {} => MenuPrinted("Save as...\n")
    /\ MenuPrinted("Save as...\n") => (pc = "picker" <=> At("picker") = {})
    /\ pc = "picker" => MenuPrinted("Save as...\n")
    /\ \A i \in At("picker") :
          /\ log[i].tool = "zenity"
          /\ log[i].argv = <<"--file-selection", "--save">>
          /\ log[i].status \in {"spawn_err", "nonzero"} =>
                /\ i = Len(log)
                /\ pc = "exit" /\ exit_code # 0
                /\ choice = NoChoice
                /\ At("copy") = {}
                /\ log[i].status = "nonzero" => Contains(err, "zenity failed. Exit status: ")
                /\ log[i].status = "spawn_err" => (err # "" /\ ~Contains(err, "zenity failed"))

\* The save picker was cancelled (non-zero exit) after "Save as..." was selected.
C18_Witness ==
    /\ MenuPrinted("Save as...\n")
    /\ \E i \in At("picker") : log[i].status = "nonzero"
    /\ pc = "exit"

----------------------------------------------------------------------------
(* C19 *)

\* The viewer interactions of a run, as the log records them.
C19_ViewerCall ==
    \A i \in At("viewer") :
        /\ choice.tag = "OpenWith"
        /\ log[i].tool = choice.arg
        /\ log[i].argv = <<FilePath>>
        /\ i = Len(log)
        /\ pc = "exit"
        /\ log[i].status = "ok" => (exit_code = 0 /\ err = "")
        /\ log[i].status # "ok" => exit_code # 0

\* The step taken from dispatch with an OpenWith choice.
C19_SpawnStep ==
    (pc = "dispatch" /\ choice.tag = "OpenWith") =>
        /\ pc' = "exit"
        /\ Len(log') = Len(log) + 1
        /\ log'[Len(log')].kind = "viewer"

\* C19: OpenWith(viewer) spawns the named program with the captured file path
\* as its only argument; the step that spawns it is the run's last one, ending
\* in success after a successful spawn whether the viewer has exited or is
\* still running, and in failure when the spawn fails.
C19_FireAndForget == []C19_ViewerCall /\ [][C19_SpawnStep]_vars

\* A run that has ended in success while the viewer it spawned is still running.
C19_Witness ==
    /\ pc = "exit" /\ exit_code = 0
    /\ \E i \in At("viewer") :
          /\ log[i].status = "ok"
          /\ log[i].out = "running"
          /\ log[i].argv = <<FilePath>>

\* A run that has ended in failure because the viewer could not be spawned.
C19_WitnessSpawnFailure ==
    /\ pc = "exit" /\ exit_code # 0
    /\ \E i \in At("viewer") : log[i].status = "spawn_err"

----------------------------------------------------------------------------
(* C20 *)

\* C20: the upload client is invoked only in runs where a client id was
\* configured; when the list dialog prints "Upload to imgur.com" in a run
\* without one, no dispatch interaction (file read, upload, clipboard write,
\* notification) is ever made and the run ends in failure.
C20_UploadNeedsClientId ==
    /\ At("upload") # {} => UploadEnabled
    /\ (~UploadEnabled /\ MenuPrinted("Upload to imgur.com\n")) =>
          /\ \A i \in DOMAIN log : log[i].kind \notin DispatchKinds
          /\ pc \in {"dispatch", "exit"}
          /\ pc = "exit" => exit_code # 0

\* A run without a client id whose dialog printed the upload label has ended.
C20_Witness ==
    /\ ~UploadEnabled
    /\ MenuPrinted("Upload to imgur.com\n")
    /\ pc = "exit"
    /\ exit_code # 0

====
